---- MODULE Spec2Model ----
(***************************************************************************)
(* muFX daily price fetcher (tools/fetch_prices.py): the instrument        *)
(* catalog, fetch_all (one batch download, per-instrument fallback, the    *)
(* derived metrics), the three renderers and main.                         *)
(*                                                                         *)
(* Numbers.  A close price is an integer count of 1/10000 (the catalog's   *)
(* largest "decimals" is 4), so 102.00 is 1020000.  The closes read from   *)
(* a pandas Series are numpy float64 scalars: the percent change is kept   *)
(* as the extended rational num/den (den = 0, num # 0: +-inf; 0/0: nan),   *)
(* which is what float64 division yields for a zero divisor (numpy warns   *)
(* and returns inf or nan, it does not raise).  Rounded values are in      *)
(* sign-magnitude form so that -0.0 and "-0.00" are kept apart from 0.0.   *)
(* Python's round() and ".2f" round the exact binary value half-to-even;   *)
(* the sample closes below have no decimal ties, where the binary          *)
(* representation would decide.                                            *)
(***************************************************************************)
EXTENDS Integers, Sequences, FiniteSets, TLC

VARIABLES
    pc,       \* position of main: "start", "loop", "returned", "done", "crashed"
    args,     \* the output option of the command line, "" until main branches on it
    data,     \* the batch download's result, per ticker
    i,        \* index in INSTRUMENTS of the entry the loop of fetch_all is at
    results,  \* the dict fetch_all builds, in insertion order
    calls,    \* provider queries issued so far, in order
    single,   \* what the individual query returned, per instrument name
    output    \* what the renderer printed to stdout

vars == <<pc, args, data, i, results, calls, single, output>>

\* How many catalog entries may have a batch entry other than the nominal
\* two-close series in one run.
MaxPerturbed == 1

-----------------------------------------------------------------------------
(* INSTRUMENT MAP *)

INSTRUMENTS ==
    << [name |-> "DXY",     ticker |-> "DX-Y.NYB", decimals |-> 2, category |-> "primary"],
       [name |-> "EUR/USD", ticker |-> "EURUSD=X", decimals |-> 4, category |-> "primary"],
       [name |-> "XAU/USD", ticker |-> "GC=F",     decimals |-> 0, category |-> "primary"],
       [name |-> "USD/JPY", ticker |-> "JPY=X",    decimals |-> 2, category |-> "primary"],
       [name |-> "GBP/USD", ticker |-> "GBPUSD=X", decimals |-> 4, category |-> "secondary"],
       [name |-> "AUD/USD", ticker |-> "AUDUSD=X", decimals |-> 4, category |-> "secondary"],
       [name |-> "USD/CHF", ticker |-> "CHF=X",    decimals |-> 4, category |-> "secondary"],
       [name |-> "US10Y",   ticker |-> "^TNX",     decimals |-> 3, category |-> "secondary"],
       [name |-> "Brent",   ticker |-> "BZ=F",     decimals |-> 2, category |-> "secondary"],
       [name |-> "S&P500",  ticker |-> "^GSPC",    decimals |-> 2, category |-> "supplementary"],
       [name |-> "VIX",     ticker |-> "^VIX",     decimals |-> 2, category |-> "supplementary"],
       [name |-> "BTC/USD", ticker |-> "BTC-USD",  decimals |-> 0, category |-> "supplementary"] >>

NumInstruments == Len(INSTRUMENTS)

Names == { INSTRUMENTS[k].name : k \in 1..NumInstruments }

\* tickers = {name: info["ticker"] ...}
tickers == [ n \in Names |->
               INSTRUMENTS[CHOOSE k \in 1..NumInstruments : INSTRUMENTS[k].name = n].ticker ]

\* list(tickers.values())
Tickers == { tickers[n] : n \in Names }

Categories == <<"primary", "secondary", "supplementary">>

-----------------------------------------------------------------------------
(* The provider's answers.  A series is a sequence of rows in the order    *)
(* the provider returns them, each a trading day of the 5-day window with  *)
(* its close or a missing value.                                           *)

Row(d, c) == [date |-> d, isna |-> FALSE, close |-> c]
NA(d)     == [date |-> d, isna |-> TRUE,  close |-> 0]

NominalSeries == << Row("2026-02-26", 1000000), Row("2026-02-27", 1020000) >>

AllMissing   == << NA("2026-02-26"), NA("2026-02-27") >>
OneClose     == << NA("2026-02-26"), Row("2026-02-27", 1000000) >>
ZeroPrevious == << Row("2026-02-26", 0), Row("2026-02-27", 50000) >>
ZeroBoth     == << Row("2026-02-26", 0), Row("2026-02-27", 0) >>
TinyRise     == << Row("2026-02-26", 1500000), Row("2026-02-27", 1500100) >>
TinyFall     == << Row("2026-02-25", 3000000), NA("2026-02-26"),
                   Row("2026-02-27", 2999900) >>
StaleFall    == << Row("2026-02-25", 1048276), Row("2026-02-26", 1040000),
                   NA("2026-02-27") >>

Series(s) == [kind |-> "series", s |-> s, msg |-> ""]
\* data["Close"][ticker] raises KeyError or TypeError
Absent    == [kind |-> "absent", s |-> <<>>, msg |-> ""]
\* the extraction raises something else
Broken    == [kind |-> "broken", s |-> <<>>, msg |-> "'float' object has no attribute 'dropna'"]
Raised    == [kind |-> "raise",  s |-> <<>>, msg |-> "No data found, symbol may be delisted"]
NotAsked  == [kind |-> "none",   s |-> <<>>, msg |-> ""]

BatchEntries ==
    { Absent, Broken } \cup
    { Series(s) : s \in { AllMissing, OneClose, ZeroPrevious, ZeroBoth, TinyRise,
                          TinyFall, StaleFall } }

\* The frames yf.download can return: every ticker has the nominal series
\* but for the tickers of a set P of at most MaxPerturbed, which have g's entries.
PerturbedSets == { Q \in SUBSET Tickers : Cardinality(Q) <= MaxPerturbed }

Frame(P, g) == [t \in Tickers |-> IF t \in P THEN g[t] ELSE Series(NominalSeries)]

\* What yf.Ticker(ticker).history(period="5d") can do.
SingleResponses ==
    { Raised } \cup
    { Series(s) : s \in { NominalSeries, AllMissing, OneClose, ZeroPrevious, TinyRise } }

-----------------------------------------------------------------------------
(* Arithmetic *)

RECURSIVE Pow10(_)
Pow10(n) == IF n = 0 THEN 1 ELSE 10 * Pow10(n - 1)

Abs(x) == IF x < 0 THEN -x ELSE x

\* n / d for n >= 0, d > 0, to the nearest integer, ties to even
RoundHalfEven(n, d) ==
    LET q == n \div d
        r == n % d
    IN  IF 2 * r < d THEN q
        ELSE IF 2 * r > d THEN q + 1
        ELSE IF q % 2 = 0 THEN q ELSE q + 1

\* round(float(x), decimals) of a close x, still in 1/10000
round(x, decimals) ==
    LET unit == Pow10(4 - decimals)
    IN  IF x >= 0 THEN RoundHalfEven(x, unit) * unit
        ELSE -(RoundHalfEven(-x, unit) * unit)

\* ((current - previous) / previous) * 100
PctChange(current, previous) ==
    IF previous > 0 THEN [num |-> (current - previous) * 100, den |-> previous]
    ELSE IF previous < 0 THEN [num |-> (previous - current) * 100, den |-> -previous]
    ELSE IF current > 0 THEN [num |-> 1, den |-> 0]
    ELSE IF current < 0 THEN [num |-> -1, den |-> 0]
    ELSE [num |-> 0, den |-> 0]

\* abs(change_pct) < 0.01
AbsBelowHundredth(r) == r.den > 0 /\ Abs(r.num) * 100 < r.den
\* change_pct > 0
Positive(r) == r.num > 0
\* change_pct >= 0
NonNegative(r) == (r.den > 0 /\ r.num >= 0) \/ (r.den = 0 /\ r.num > 0)

\* round(float(change_pct), 2) and f"{change_pct:.2f}": hundredths, sign apart
Round2(r) ==
    IF r.den = 0
    THEN [k |-> IF r.num = 0 THEN "nan" ELSE "inf", neg |-> r.num < 0, hundredths |-> 0]
    ELSE [k |-> "fin", neg |-> r.num < 0,
          hundredths |-> RoundHalfEven(Abs(r.num) * 100, r.den)]

-----------------------------------------------------------------------------
(* fetch_all *)

\* closes = <series>.dropna()
dropna(s) == SelectSeq(s, LAMBDA row : ~row.isna)

Has(res, name) == \E k \in 1..Len(res) : res[k].name = name

\* results[name] = rec, on a dict that keeps insertion order
Put(res, name, rec) ==
    IF Has(res, name)
    THEN [k \in 1..Len(res) |->
            IF res[k].name = name THEN [name |-> name, rec |-> rec] ELSE res[k]]
    ELSE Append(res, [name |-> name, rec |-> rec])

\* the test off by one: two closes are not enough
TooShort_offByOne(closes) == Len(closes) <= 2

\* if len(closes) < 2
TooShort(closes) == Len(closes) < 2

\* results[name] = {"error": "Insufficient data"}
InsufficientData(info) == [error |-> "Insufficient data"]

\* the handler swallowing the error without recording it
OnException_lost(res, info, msg) == res

\* except Exception as e: results[name] = {"error": str(e), "category": ...}
OnException(res, info, msg) ==
    Put(res, info.name, [error |-> msg, category |-> info.category])

\* the direction taken from the rounded change instead of the computed one
Direction_fromRounded(change_pct) ==
    LET shown == Round2(change_pct)
    IN  IF shown.k = "fin" /\ shown.hundredths < 1
        THEN [direction |-> "flat", arrow |-> "U+25CF"]
        ELSE IF ~shown.neg /\ shown.k # "nan"
        THEN [direction |-> "up",   arrow |-> "U+25B2"]
        ELSE [direction |-> "down", arrow |-> "U+25BC"]

\* the direction and its arrow (the glyphs by code point)
Direction(change_pct) ==
    IF AbsBelowHundredth(change_pct) THEN [direction |-> "flat", arrow |-> "U+25CF"]
    ELSE IF Positive(change_pct)     THEN [direction |-> "up",   arrow |-> "U+25B2"]
    ELSE                                  [direction |-> "down", arrow |-> "U+25BC"]

\* f"{'+' if change_pct >= 0 else ''}{change_pct:.2f}%"
ChangeStr(change_pct) ==
    [sign |-> IF NonNegative(change_pct) THEN "+" ELSE "",
     body |-> Round2(change_pct), unit |-> "%"]

\* the body of the loop from "if len(closes) < 2" on, for the closes in hand
Metrics(info, closes) ==
    IF TooShort(closes) THEN InsufficientData(info)
    ELSE LET current    == closes[Len(closes)].close
             previous   == closes[Len(closes) - 1].close
             change_pct == PctChange(current, previous)
             dir        == Direction(change_pct)
         IN  [price      |-> round(current, info.decimals),
              prev_close |-> round(previous, info.decimals),
              change_pct |-> Round2(change_pct),
              change_str |-> ChangeStr(change_pct),
              direction  |-> dir.direction,
              arrow      |-> dir.arrow,
              category   |-> info.category,
              date       |-> closes[Len(closes)].date]

\* an empty series treated like a missing one
NeedsFallback_orEmpty(entry) ==
    entry.kind = "absent" \/ (entry.kind = "series" /\ dropna(entry.s) = <<>>)

\* the extraction from the batch frame never succeeding
NeedsFallback_always(entry) == TRUE

\* except (KeyError, TypeError): the batch frame has no close series for the ticker
NeedsFallback(entry) == entry.kind = "absent"

\* a query of the provider and whether it raised
BatchCall(raised) == [op |-> "download", ticker |-> "*", raised |-> raised]
SingleCall(ticker, raised) == [op |-> "history", ticker |-> ticker, raised |-> raised]

Init ==
    /\ pc = "start"
    /\ args = ""
    /\ data = [t \in Tickers |-> NotAsked]
    /\ i = 1
    /\ results = <<>>
    /\ calls = <<>>
    /\ single = [n \in Names |-> NotAsked]
    /\ output = <<>>

\* data = yf.download(list(tickers.values()), period="5d", ...) returns
BatchDownload ==
    /\ pc = "start"
    /\ \E P \in PerturbedSets : \E g \in [P -> BatchEntries] : data' = Frame(P, g)
    /\ calls' = Append(calls, BatchCall(FALSE))
    /\ pc' = "loop"
    /\ UNCHANGED <<args, i, results, single, output>>

\* a failed download caught, every instrument then fetched individually
BatchDownloadRaises_swallowed ==
    /\ pc = "start"
    /\ calls' = Append(calls, BatchCall(TRUE))
    /\ data' = [t \in Tickers |-> Absent]
    /\ pc' = "loop"
    /\ UNCHANGED <<args, i, results, single, output>>

\* yf.download raises: nothing in fetch_all or main catches it
BatchDownloadRaises ==
    /\ pc = "start"
    /\ calls' = Append(calls, BatchCall(TRUE))
    /\ pc' = "crashed"
    /\ UNCHANGED <<args, data, i, results, single, output>>

\* one iteration of the loop, closes taken from the batch frame
ProcessFromBatch ==
    /\ pc = "loop" /\ i <= NumInstruments
    /\ LET info  == INSTRUMENTS[i]
           entry == data[info.ticker]
       IN  /\ entry.kind = "series" /\ ~NeedsFallback(entry)
           /\ results' = Put(results, info.name, Metrics(info, dropna(entry.s)))
    /\ i' = i + 1
    /\ UNCHANGED <<pc, args, data, calls, single, output>>

\* the individual query made outside the try: its error ends the run
ProcessFallback_abort ==
    /\ pc = "loop" /\ i <= NumInstruments
    /\ LET info == INSTRUMENTS[i]
       IN  /\ NeedsFallback(data[info.ticker])
           /\ \E resp \in SingleResponses :
                /\ single' = [single EXCEPT ![info.name] = resp]
                /\ IF resp.kind = "raise"
                   THEN pc' = "crashed" /\ UNCHANGED <<results, i>>
                   ELSE /\ results' = Put(results, info.name, Metrics(info, dropna(resp.s)))
                        /\ i' = i + 1 /\ pc' = pc
                /\ calls' = Append(calls, SingleCall(info.ticker, resp.kind = "raise"))
    /\ UNCHANGED <<args, data, output>>

\* one iteration of the loop, closes fetched individually
ProcessFallback ==
    /\ pc = "loop" /\ i <= NumInstruments
    /\ LET info == INSTRUMENTS[i]
       IN  /\ NeedsFallback(data[info.ticker])
           /\ \E resp \in SingleResponses :
                /\ single' = [single EXCEPT ![info.name] = resp]
                /\ results' = IF resp.kind = "raise"
                              THEN OnException(results, info, resp.msg)
                              ELSE Put(results, info.name, Metrics(info, dropna(resp.s)))
                /\ calls' = Append(calls, SingleCall(info.ticker, resp.kind = "raise"))
    /\ i' = i + 1
    /\ UNCHANGED <<pc, args, data, output>>

\* one iteration of the loop, the extraction raising past the inner except
ProcessExtractionError ==
    /\ pc = "loop" /\ i <= NumInstruments
    /\ LET info  == INSTRUMENTS[i]
           entry == data[info.ticker]
       IN  /\ entry.kind = "broken" /\ ~NeedsFallback(entry)
           /\ results' = OnException(results, info, entry.msg)
    /\ i' = i + 1
    /\ UNCHANGED <<pc, args, data, calls, single, output>>

\* return results
Return ==
    /\ pc = "loop" /\ i > NumInstruments
    /\ pc' = "returned"
    /\ UNCHANGED <<args, data, i, results, calls, single, output>>

-----------------------------------------------------------------------------
(* Renderers.  The "Generated:" time stamps are left out of the output. *)

\* d.get(key, default)
Get(rec, key, default) == IF key \in DOMAIN rec THEN rec[key] ELSE default

\* the line print_table prints for one entry of the category being listed
TableLine(e) ==
    IF "error" \in DOMAIN e.rec
    THEN [kind |-> "error", name |-> e.name, text |-> e.rec.error]
    ELSE [kind |-> "row", name |-> e.name,
          text |-> <<e.rec.price, e.rec.arrow, e.rec.change_str,
                     CASE e.rec.direction = "up"   -> "green"
                       [] e.rec.direction = "down" -> "red"
                       [] e.rec.direction = "flat" -> "yellow",
                     e.rec.prev_close>>]

\* for name, data in results.items(): if data.get("category") != category: continue
CategoryBlock(res, category) ==
    LET listed == SelectSeq(res, LAMBDA e : Get(e.rec, "category", "None") = category)
    IN  << [kind |-> "heading", name |-> category, text |-> ""] >>
        \o [k \in 1..Len(listed) |-> TableLine(listed[k])]

print_table(res) ==
    << [kind |-> "banner", name |-> "muFX SIGNAL CHECK", text |-> ""] >>
    \o CategoryBlock(res, Categories[1])
    \o CategoryBlock(res, Categories[2])
    \o CategoryBlock(res, Categories[3])
    \o << [kind |-> "footer", name |-> "Data date",
           text |-> Get(res[1].rec, "date", "N/A")] >>

print_json(res) ==
    << [kind |-> "json", name |-> "Yahoo Finance", text |-> res] >>

CsvLine(e) ==
    IF "error" \in DOMAIN e.rec
    THEN [kind |-> "csv", name |-> e.name, text |-> <<"ERROR">>]
    ELSE [kind |-> "csv", name |-> e.name,
          text |-> <<e.rec.price, e.rec.prev_close, e.rec.change_pct,
                     e.rec.direction, e.rec.category, e.rec.date>>]

print_csv(res) ==
    << [kind |-> "csvheader", name |-> "instrument", text |-> ""] >>
    \o [k \in 1..Len(res) |-> CsvLine(res[k])]

\* main after results = fetch_all(): the parsed option picks the renderer
\* (fetch_all does not read it, so it is drawn here, where it is first used)
Render ==
    /\ pc = "returned"
    /\ \E option \in {"table", "json", "csv"} :
          /\ args' = option
          /\ output' = CASE option = "json" -> print_json(results)
                         [] option = "csv"  -> print_csv(results)
                         [] OTHER           -> print_table(results)
    /\ pc' = "done"
    /\ UNCHANGED <<data, i, results, calls, single>>

Next ==
    \/ BatchDownload
    \/ BatchDownloadRaises
    \/ ProcessFromBatch
    \/ ProcessFallback
    \/ ProcessExtractionError
    \/ Return
    \/ Render

Spec == Init /\ [][Next]_vars

-----------------------------------------------------------------------------
(* Vocabulary of the properties *)

\* catalog entries the loop has been through
Processed == 1..(i - 1)

IsFailure(rec) == "error" \in DOMAIN rec

ObservationFields ==
    {"price", "prev_close", "change_pct", "change_str", "direction", "arrow",
     "category", "date"}

IsObservation(rec) == DOMAIN rec = ObservationFields

\* the records the result holds under a name
RecordsOf(name) == { results[k].rec : k \in { j \in 1..Len(results) : results[j].name = name } }

\* entry k of the catalog has its record at place k of the result
Stored(k) == k <= Len(results) /\ results[k].name = INSTRUMENTS[k].name
RecordOf(k) == results[k].rec

Asked(ticker) ==
    \E j \in 1..Len(calls) : calls[j].op = "history" /\ calls[j].ticker = ticker

BatchEntryOf(k) == data[INSTRUMENTS[k].ticker]
SingleOf(k)     == single[INSTRUMENTS[k].name]

\* processing of entry k raised: its error message
RaisedAt(k, msg) ==
    \/ BatchEntryOf(k).kind = "broken" /\ msg = BatchEntryOf(k).msg
    \/ BatchEntryOf(k).kind = "absent" /\ SingleOf(k).kind = "raise" /\ msg = SingleOf(k).msg

\* entry k got a close series, from the batch frame or from its own query
HasCloses(k) ==
    \/ BatchEntryOf(k).kind = "series"
    \/ BatchEntryOf(k).kind = "absent" /\ SingleOf(k).kind = "series"

ClosesOf(k) ==
    IF BatchEntryOf(k).kind = "series" THEN dropna(BatchEntryOf(k).s)
    ELSE dropna(SingleOf(k).s)

CurrentOf(k)  == ClosesOf(k)[Len(ClosesOf(k))].close
PreviousOf(k) == ClosesOf(k)[Len(ClosesOf(k)) - 1].close

\* the record entry k must get from its own inputs alone
OwnRecord(k) ==
    LET info == INSTRUMENTS[k]
    IN  IF HasCloses(k) THEN Metrics(info, ClosesOf(k))
        ELSE [error |-> IF BatchEntryOf(k).kind = "broken" THEN BatchEntryOf(k).msg
                        ELSE SingleOf(k).msg,
              category |-> info.category]

-----------------------------------------------------------------------------
(* C1: once the batch query has returned, the mapping fetch_all builds and  *)
(* returns has exactly the catalog's names as keys, each once and in        *)
(* catalog order, and every value is either a PriceObservation or a         *)
(* FailureRecord, never both, never absent.                                 *)
C1_ResultCoversCatalogInOrder ==
    /\ Len(results) = i - 1
    /\ \A k \in 1..Len(results) :
          /\ k <= NumInstruments
          /\ results[k].name = INSTRUMENTS[k].name
          /\ IsFailure(results[k].rec) # IsObservation(results[k].rec)
    /\ pc \in {"returned", "done"} =>
          /\ Len(results) = NumInstruments
          /\ \A n \in Names : Cardinality(RecordsOf(n)) = 1

C1_Witness ==
    /\ pc = "returned"
    /\ Len(results) = NumInstruments
    /\ \E k \in 1..(NumInstruments - 1) : IsFailure(results[k].rec)
    /\ \E k \in 1..NumInstruments : IsObservation(results[k].rec)

(* C2: an error raised while instrument X is processed becomes X's          *)
(* FailureRecord with the error's message, the loop goes on with the next   *)
(* entry, every other instrument's record is the one its own inputs give,   *)
(* and the run is never aborted by it.                                      *)
C2_FailureIsolation ==
    /\ \A k \in Processed :
          /\ \A msg \in {Broken.msg, Raised.msg} :
                RaisedAt(k, msg) =>
                   /\ Stored(k)
                   /\ RecordOf(k) = [error |-> msg, category |-> INSTRUMENTS[k].category]
          /\ Stored(k) /\ RecordOf(k) = OwnRecord(k)
    /\ pc = "crashed" => calls = <<BatchCall(TRUE)>>
    /\ pc \in {"returned", "done"} => i = NumInstruments + 1

C2_Witness ==
    /\ pc = "done"
    /\ \E k \in 1..(NumInstruments - 1) :
          /\ \E msg \in {Broken.msg, Raised.msg} : RaisedAt(k, msg)
          /\ IsFailure(results[k].rec)
          /\ IsObservation(results[k + 1].rec)

(* C3 as claimed: an individual query is issued for X whenever the batch    *)
(* result lacks X's close series or the series extracted from it is empty   *)
(* after dropping missing values, and X's record is then computed from the  *)
(* individual query's series.                                               *)
C3_FallbackOnMissingOrEmpty ==
    \A k \in Processed :
       (\/ BatchEntryOf(k).kind = "absent"
        \/ BatchEntryOf(k).kind = "series" /\ dropna(BatchEntryOf(k).s) = <<>>)
       => /\ Asked(INSTRUMENTS[k].ticker)
          /\ SingleOf(k).kind = "series" =>
                /\ Stored(k)
                /\ RecordOf(k) = Metrics(INSTRUMENTS[k], dropna(SingleOf(k).s))

(* C3 amended: an individual query is issued for X exactly when the batch   *)
(* result lacks X's close series; X's record is then computed from the      *)
(* individual query's series, or is a FailureRecord when that query         *)
(* raises.  A series found in the batch result that is empty after          *)
(* dropping missing values triggers no query: X gets "Insufficient data".   *)
C3_FallbackOnMissingOnly ==
    \A k \in Processed :
       /\ Asked(INSTRUMENTS[k].ticker) <=> BatchEntryOf(k).kind = "absent"
       /\ BatchEntryOf(k).kind = "absent" /\ SingleOf(k).kind = "series" =>
             /\ Stored(k)
             /\ RecordOf(k) = Metrics(INSTRUMENTS[k], dropna(SingleOf(k).s))
       /\ BatchEntryOf(k).kind = "absent" /\ SingleOf(k).kind = "raise" =>
             Stored(k) /\ IsFailure(RecordOf(k))
       /\ BatchEntryOf(k).kind = "series" /\ dropna(BatchEntryOf(k).s) = <<>> =>
             /\ SingleOf(k) = NotAsked
             /\ Stored(k)
             /\ IsFailure(RecordOf(k)) /\ RecordOf(k).error = "Insufficient data"

C3_Witness ==
    \E k \in Processed :
       /\ BatchEntryOf(k).kind = "absent"
       /\ Asked(INSTRUMENTS[k].ticker)
       /\ SingleOf(k) = Series(TinyRise)
       /\ IsObservation(results[k].rec)
       /\ results[k].rec.price = round(1500100, INSTRUMENTS[k].decimals)

(* C4: a run has exactly one batch query, issued first; an individual       *)
(* query is issued for X only if the batch extraction failed for X, and at  *)
(* most once; an instrument whose series came from the batch result         *)
(* triggers no individual query and its record is computed from the batch   *)
(* result alone.                                                            *)
C4_CallBudget ==
    /\ pc # "start" =>
          /\ Len(calls) >= 1 /\ calls[1].op = "download"
          /\ \A j \in 2..Len(calls) : calls[j].op = "history"
    /\ pc = "start" => calls = <<>>
    /\ \A j \in 2..Len(calls) :
          /\ calls[j].ticker \in Tickers
          /\ data[calls[j].ticker].kind # "series"
          /\ \A h \in 2..Len(calls) : calls[h].ticker = calls[j].ticker => h = j
    /\ \A k \in Processed :
          BatchEntryOf(k).kind = "series" =>
             /\ ~Asked(INSTRUMENTS[k].ticker)
             /\ SingleOf(k) = NotAsked
             /\ Stored(k)
             /\ RecordOf(k) = Metrics(INSTRUMENTS[k], dropna(BatchEntryOf(k).s))

C4_Witness ==
    /\ pc = "returned"
    /\ Len(calls) = 2
    /\ \E k \in 2..NumInstruments :
          /\ calls[2] = SingleCall(INSTRUMENTS[k].ticker, FALSE)
          /\ BatchEntryOf(k).kind = "absent"
          /\ BatchEntryOf(k - 1).kind = "series"
          /\ IsObservation(results[k - 1].rec)

(* C5: every record of the mapping, a PriceObservation or a FailureRecord   *)
(* of any cause, "Insufficient data" included, carries the category of its  *)
(* instrument's catalog entry.                                              *)
C5_EveryRecordHasCategory ==
    \A k \in 1..Len(results) :
       /\ "category" \in DOMAIN results[k].rec
       /\ \A c \in 1..NumInstruments :
             INSTRUMENTS[c].name = results[k].name =>
                results[k].rec.category = INSTRUMENTS[c].category

(* C6: when the close series used for X, missing values dropped, has fewer  *)
(* than 2 observations, X gets the FailureRecord "Insufficient data" and    *)
(* no metrics, and the loop goes on; with 2 or more observations X never    *)
(* gets an "Insufficient data" record.                                      *)
C6_InsufficientData ==
    /\ \A k \in Processed :
          /\ Stored(k)
          /\ HasCloses(k) =>
                LET rec == RecordOf(k)
                IN  /\ Len(ClosesOf(k)) < 2 =>
                          /\ IsFailure(rec) /\ rec.error = "Insufficient data"
                          /\ DOMAIN rec \cap ObservationFields \subseteq {"category"}
                    /\ Len(ClosesOf(k)) >= 2 =>
                          Get(rec, "error", "") # "Insufficient data"
    /\ pc \in {"returned", "done"} => i = NumInstruments + 1 /\ pc # "crashed"

C6_Witness ==
    \E k \in Processed :
       /\ k + 1 \in Processed
       /\ HasCloses(k) /\ Len(ClosesOf(k)) = 1
       /\ results[k].rec.error = "Insufficient data"
       /\ HasCloses(k + 1) /\ Len(ClosesOf(k + 1)) = 2
       /\ IsObservation(results[k + 1].rec)

(* C7: an instrument whose series has at least 2 observations and whose     *)
(* second-to-last close is 0 gets a FailureRecord, never a                  *)
(* PriceObservation with an infinite or undefined changePct.                *)
C7_ZeroPreviousYieldsFailure ==
    \A k \in Processed :
       (HasCloses(k) /\ Len(ClosesOf(k)) >= 2 /\ PreviousOf(k) = 0) =>
          /\ Stored(k)
          /\ IsFailure(RecordOf(k))
          /\ ~IsObservation(RecordOf(k))

\* the changePct field of a record, compared with 0.01 and with 0
FieldBelowHundredth(f) == f.k = "fin" /\ f.hundredths < 1
FieldPositive(f) == (f.k = "fin" /\ ~f.neg /\ f.hundredths > 0) \/ (f.k = "inf" /\ ~f.neg)

ArrowOf(direction) ==
    CASE direction = "flat" -> "U+25CF"
      [] direction = "up"   -> "U+25B2"
      [] direction = "down" -> "U+25BC"
      [] OTHER              -> "?"

(* C8 as claimed: in every PriceObservation the direction field and the     *)
(* changePct field of the same record agree: flat iff |changePct| < 0.01,   *)
(* otherwise up iff changePct > 0, else down; the arrow matches.            *)
C8_DirectionMatchesRecordedChange ==
    \A k \in 1..Len(results) :
       IsObservation(results[k].rec) =>
          LET rec == results[k].rec
          IN  /\ rec.direction \in {"flat", "up", "down"}
              /\ rec.direction = "flat" <=> FieldBelowHundredth(rec.change_pct)
              /\ ~FieldBelowHundredth(rec.change_pct) =>
                    (rec.direction = "up" <=> FieldPositive(rec.change_pct))
              /\ rec.arrow = ArrowOf(rec.direction)

(* C8 amended: in every PriceObservation the direction is the class of the  *)
(* percent change as computed from the unrounded closes, before rounding:   *)
(* flat iff |(current - previous) / previous * 100| < 0.01, otherwise up    *)
(* iff it is > 0, else down (with previous = 0 the float change is +inf,    *)
(* up, for current > 0 and NaN, down, for current = 0).  Exactly one of     *)
(* the three holds and the arrow matches.  The changePct field is that      *)
(* change rounded to 2 decimals, so a flat record's field is within 0.01    *)
(* of 0 and may be 0.01 or -0.01.                                           *)
C8_DirectionMatchesUnroundedChange ==
    \A k \in Processed :
       (Stored(k) /\ IsObservation(RecordOf(k))) =>
             LET rec  == RecordOf(k)
                 cur  == CurrentOf(k)
                 prev == PreviousOf(k)
                 flat == prev # 0 /\ Abs(cur - prev) * 10000 < Abs(prev)
                 up   == \/ prev > 0 /\ cur > prev
                         \/ prev < 0 /\ cur < prev
                         \/ prev = 0 /\ cur > 0
             IN  /\ HasCloses(k) /\ Len(ClosesOf(k)) >= 2
                 /\ rec.direction = (IF flat THEN "flat" ELSE IF up THEN "up" ELSE "down")
                 /\ rec.arrow = ArrowOf(rec.direction)
                 /\ rec.direction = "flat" =>
                       rec.change_pct.k = "fin" /\ rec.change_pct.hundredths <= 1
                 /\ rec.direction = "up" => FieldPositive(rec.change_pct)
                 /\ rec.direction = "down" =>
                       ~FieldPositive(rec.change_pct) /\ ~FieldBelowHundredth(rec.change_pct)

C8_Witness ==
    \E k \in Processed :
       /\ IsObservation(results[k].rec)
       /\ results[k].rec.direction = "flat"
       /\ results[k].rec.change_pct = [k |-> "fin", neg |-> FALSE, hundredths |-> 1]
       /\ results[k].rec.change_str.sign = "+"

(* C9: the batch query comes before any individual query, and when the      *)
(* batch query raises the run is over: no individual query is issued, no    *)
(* result mapping, partial or not, is returned and no renderer runs.        *)
C9_BatchFailureIsFatal ==
    /\ calls # <<>> => calls[1].op = "download"
    /\ \A j \in 1..Len(calls) : calls[j].op = "history" => j > 1
    /\ (calls # <<>> /\ calls[1].raised) =>
          /\ pc = "crashed"
          /\ calls = <<BatchCall(TRUE)>>
          /\ results = <<>>
          /\ output = <<>>
          /\ \A n \in Names : single[n] = NotAsked
    /\ pc \in {"returned", "done"} => calls # <<>> /\ ~calls[1].raised

C9_Witness ==
    /\ pc = "crashed"
    /\ calls = <<BatchCall(TRUE)>>
    /\ results = <<>>
    /\ output = <<>>

\* the lines of the table that list an instrument
LinesOf(name) ==
    { j \in 1..Len(output) : output[j].kind \in {"row", "error"} /\ output[j].name = name }

\* the category heading a line of the table stands under
HeadingAbove(j) ==
    LET above == { h \in 1..j : output[h].kind = "heading" }
    IN  IF above = {} THEN "" ELSE output[CHOOSE h \in above : \A g \in above : g <= h].name

(* C10: the default table prints exactly one line for every instrument of   *)
(* the mapping, under the heading of its catalog category, an ERROR line    *)
(* for every FailureRecord of any cause; no instrument is left out.         *)
C10_TableListsEveryInstrument ==
    (pc = "done" /\ args = "table") =>
       \A k \in 1..Len(results) :
          /\ Cardinality(LinesOf(results[k].name)) = 1
          /\ \A j \in LinesOf(results[k].name) :
                /\ HeadingAbove(j) = INSTRUMENTS[k].category
                /\ IsFailure(results[k].rec) => output[j].kind = "error"

====
